---- MODULE Spec2Model ----
(***************************************************************************)
(* Model of the persistent task queue of MediaPruner                       *)
(* (backend/app/services/queue.py): the queue_tasks / queue_items rows,    *)
(* create_task, cancel_task, clear_queued_tasks and the steps of           *)
(* QueueWorker.process_one.                                                *)
(*                                                                         *)
(* The store holds the committed rows.  The worker keeps its own ORM       *)
(* session for the whole of process_one: orm_task / orm_items are the      *)
(* attribute values of the objects loaded in that session, which differ    *)
(* from the committed rows whenever another session (cancel_task,          *)
(* clear_queued_tasks) commits between two of the worker's awaits.  Each   *)
(* await on the store is one step of the worker; a commit flushes an       *)
(* UPDATE of exactly the attributes the worker assigned since the last     *)
(* commit.  session.refresh(task) re-reads the task row and, through the   *)
(* selectinload option the task was loaded with, its item rows.            *)
(*                                                                         *)
(* Time is a logical clock: every datetime.utcnow() that is stored in a    *)
(* row reads `now` and advances it by one tick, so the stored datetimes    *)
(* record the order of the commits.                                        *)
(***************************************************************************)
EXTENDS Integers, Sequences, FiniteSets, TLC

\* ---- bounds of the model ------------------------------------------------
MaxTasks == 1
MaxItems == 2
MaxClock == 7
MaxCancels == 1
MaxOlder == 1
MaxPublishes == 12
MaxCreates == 2
MaxUpdates == 2

\* ---- QueueStatus values ---------------------------------------------------
QUEUED == "queued"
RUNNING == "running"
COMPLETED == "completed"
FAILED == "failed"
CANCELED == "canceled"
DELETED == "deleted"

\* the statuses of a task that is over
Terminal == {COMPLETED, FAILED, CANCELED, DELETED}

\* an unset (NULL) datetime column; stored datetimes are >= 1
NoTime == 0
\* an unset (NULL) items.result column
NoResult == "null"

\* task types drawn by create_task: one with a handler, one without
TaskTypes == {"analyze", "no_such_type"}
HandledTypes == {"scan", "analyze", "refresh_metadata", "sync_watch_history"}

\* what running one item's handler can end in
Outcomes == {"completed", "failed", "exception"}

VARIABLES
    tasks,              \* committed queue_tasks rows; the id is the position
    items,              \* committed queue_items rows of each task, in id order
    now,                \* the clock
    cancels,            \* number of cancel_task calls that found their task
    pc,                 \* where the worker is inside process_one
    w_id,               \* id of the task the worker's session holds, 0 if none
    orm_task,           \* the worker session's task object
    orm_items,          \* the worker session's item objects (by row position)
    order,              \* sorted(task.items, key=index) as row positions
    pos,                \* position of the item loop in `order`
    last_error,         \* QueueWorker.last_error
    last_processed_at,  \* QueueWorker.last_processed_at
    clear_pc,           \* where clear_queued_tasks is
    clear_ids,          \* the ids clear_queued_tasks selected
    creating,           \* the create_task calls in flight or failed
    once,               \* a second invocation of process_one (worker/run-once)
    subscribers,        \* _subscribers
    buffers,            \* the asyncio.Queue of each subscriber
    published,          \* number of messages _publish_event has formatted
    last_read,          \* per stream, the number of the last message it sent
    response,           \* how the last clear_queued_tasks(scope=...) ended
    media,              \* task meta, item payloads, movies, log_entries, provider calls
    runner,             \* QueueWorker._task, QueueWorker._stop and the run() loops
    conn,               \* the connections of GET /stream
    db                  \* the database file that init_db migrates at startup

vars == <<tasks, items, now, cancels, pc, w_id, orm_task, orm_items, order, pos,
          last_error, last_processed_at, clear_pc, clear_ids, creating, once,
          subscribers, buffers, published, last_read, response,
          media, runner, conn, db>>

store == <<tasks, items>>
clock == <<now, cancels>>
worker == <<pc, w_id, orm_task, orm_items, order, pos, last_error, last_processed_at>>
clearing == <<clear_pc, clear_ids>>
bus == <<subscribers, buffers, published, last_read>>
\* what the steps of the store and of the background worker leave alone
rest == <<creating, once, bus, response, media, runner, conn, db>>
\* what the queue service and the purge leave alone
ext == <<media, runner, conn, db>>

TaskIds == 1..Len(tasks)

\* clear_queued_tasks was not called with a scope yet
NoResponse == [scope |-> "none", raised |-> "none", http |-> 0, tasks_cleared |-> 0]

NoTask == [type |-> "analyze", status |-> QUEUED, created_at |-> NoTime,
           started_at |-> NoTime, finished_at |-> NoTime, canceled_at |-> NoTime,
           total_items |-> 0, completed_items |-> 0]

\* the movies of the library
Movies == {1, 2}

\* no settings stored: no provider key, no Tautulli and no Plex server
NoConfig == [tmdb_key |-> FALSE, omdb_key |-> FALSE, tautulli |-> FALSE, plex |-> FALSE]

\* no item was handled yet
NoHandled == [task |-> 0, item |-> 0, calls |-> {}]

\* no task meta, no item payload, no movie with a rating_key, no log entry
NoMedia == [config |-> NoConfig, meta |-> <<>>, payload |-> <<>>,
            rating_key |-> [m \in Movies |-> 0], logs |-> <<>>, last |-> NoHandled]

\* the asyncio tasks that QueueWorker.start can have created and that are not
\* collected yet: the first runs process_one on the worker's first session
\* variables, the other on the second invocation's
Loops == {1, 2}

\* before the application has started: no worker task, _stop clear, no Stop()
\* waiting, nothing answered yet
NoRunner == [at |-> [l \in Loops |-> "none"], task |-> 0, stop |-> FALSE,
             waiting |-> {}, stopped |-> FALSE, down |-> FALSE, answer |-> "none"]

\* an invocation of process_one that holds no task
NoOnce == [pc |-> "idle", id |-> 0, task |-> NoTask, items |-> <<>>,
           order |-> <<>>, pos |-> 0]

\* ---- create_task ----------------------------------------------------------
\* mutant: total_items counts one more than the payloads given
NewTask_OffByOne(task_type, n) ==
    [type |-> task_type, status |-> QUEUED, created_at |-> now,
     started_at |-> NoTime, finished_at |-> NoTime, canceled_at |-> NoTime,
     total_items |-> n + 1, completed_items |-> 0]

NewTask(task_type, n) ==
    [type |-> task_type, status |-> QUEUED, created_at |-> now,
     started_at |-> NoTime, finished_at |-> NoTime, canceled_at |-> NoTime,
     total_items |-> n, completed_items |-> 0]

\* mutant: the items are numbered from 1
NewItem_OneBased(idx) ==
    [index |-> idx + 1, status |-> QUEUED, result |-> NoResult,
     started_at |-> NoTime, finished_at |-> NoTime]

NewItem(idx) ==
    [index |-> idx, status |-> QUEUED, result |-> NoResult,
     started_at |-> NoTime, finished_at |-> NoTime]

create_task(task_type, n) ==
    /\ Len(tasks) < MaxTasks
    /\ now <= MaxClock
    /\ tasks' = Append(tasks, NewTask(task_type, n))
    /\ items' = Append(items, [k \in 1..n |-> NewItem(k - 1)])
    /\ now' = now + 1
    /\ UNCHANGED <<cancels, worker, clearing>>
    /\ UNCHANGED rest

\* ---- cancel_task ----------------------------------------------------------
\* mutant: the running item is left to the worker
CancelItems_QueuedOnly(rows) ==
    [k \in 1..Len(rows) |->
        IF rows[k].status = QUEUED
        THEN [rows[k] EXCEPT !.status = CANCELED]
        ELSE rows[k]]

\* mutant: every item of the task is set canceled
CancelItems_Every(rows) ==
    [k \in 1..Len(rows) |-> [rows[k] EXCEPT !.status = CANCELED]]

CancelItems(rows) ==
    [k \in 1..Len(rows) |->
        IF rows[k].status \in {QUEUED, RUNNING}
        THEN [rows[k] EXCEPT !.status = CANCELED]
        ELSE rows[k]]

cancel_task(task_id) ==
    /\ IF task_id \in TaskIds
       THEN /\ now <= MaxClock
            /\ cancels < MaxCancels
            /\ cancels' = cancels + 1
            /\ tasks' = [tasks EXCEPT ![task_id].status = DELETED,
                                      ![task_id].canceled_at = now]
            /\ items' = [items EXCEPT ![task_id] = CancelItems(items[task_id])]
            /\ now' = now + 1
       ELSE UNCHANGED <<tasks, items, now, cancels>>
    /\ UNCHANGED <<worker, clearing>>
    /\ UNCHANGED rest

\* ---- clear_queued_tasks ---------------------------------------------------
ClearWhere(t, filtered, older_than_seconds) ==
    /\ t.status \in {QUEUED, RUNNING}
    /\ filtered =>
          LET cutoff == now - older_than_seconds
          IN  \/ (t.started_at # NoTime /\ t.started_at < cutoff)
              \/ t.created_at < cutoff

clear_queued_tasks_select(filtered, older_than_seconds) ==
    /\ clear_pc = "idle"
    /\ LET ids == {i \in TaskIds : ClearWhere(tasks[i], filtered, older_than_seconds)}
       IN  IF ids = {}
           THEN UNCHANGED clearing
           ELSE /\ clear_pc' = "selected"
                /\ clear_ids' = ids
    /\ UNCHANGED <<store, clock, worker>>
    /\ UNCHANGED rest

clear_queued_tasks_commit ==
    /\ clear_pc = "selected"
    /\ tasks' = [i \in TaskIds |->
                    IF i \in clear_ids THEN [tasks[i] EXCEPT !.status = DELETED]
                    ELSE tasks[i]]
    /\ items' = [i \in TaskIds |->
                    IF i \in clear_ids THEN CancelItems(items[i]) ELSE items[i]]
    /\ clear_pc' = "idle"
    /\ clear_ids' = {}
    /\ UNCHANGED <<clock, worker>>
    /\ UNCHANGED rest

\* ---- QueueWorker.process_one ----------------------------------------------
\* mutant: the select finds no queued task
QueuedIds_None == {}

\* the rows the select of process_one matches
QueuedIds == {i \in TaskIds : tasks[i].status = QUEUED}

\* select ... where status = QUEUED order by created_at, first()
FirstQueued ==
    CHOOSE i \in QueuedIds :
        \A j \in QueuedIds :
            \/ tasks[i].created_at < tasks[j].created_at
            \/ (tasks[i].created_at = tasks[j].created_at /\ i <= j)

\* mutant: the items sorted by descending index
SortedByIndex_Descending(rows) ==
    CHOOSE s \in [1..Len(rows) -> 1..Len(rows)] :
        /\ \A a, b \in 1..Len(rows) : a # b => s[a] # s[b]
        /\ \A a, b \in 1..Len(rows) :
              a < b => rows[s[a]].index >= rows[s[b]].index

\* sorted(rows, key=index), as the sequence of row positions
SortedByIndex(rows) ==
    CHOOSE s \in [1..Len(rows) -> 1..Len(rows)] :
        /\ \A a, b \in 1..Len(rows) : a # b => s[a] # s[b]
        /\ \A a, b \in 1..Len(rows) :
              a < b => \/ rows[s[a]].index < rows[s[b]].index
                       \/ (rows[s[a]].index = rows[s[b]].index /\ s[a] < s[b])

process_one_select ==
    /\ pc = "idle"
    /\ IF QueuedIds = {}
       THEN UNCHANGED worker
       ELSE /\ w_id' = FirstQueued
            /\ orm_task' = tasks[FirstQueued]
            /\ orm_items' = items[FirstQueued]
            /\ pc' = "claim"
            /\ UNCHANGED <<order, pos, last_error, last_processed_at>>
    /\ UNCHANGED <<store, clock, clearing>>
    /\ UNCHANGED rest

process_one_claim ==
    /\ pc = "claim"
    /\ now <= MaxClock
    /\ tasks' = [tasks EXCEPT ![w_id].status = RUNNING, ![w_id].started_at = now]
    /\ orm_task' = [orm_task EXCEPT !.status = RUNNING, !.started_at = now]
    /\ now' = now + 1
    /\ pc' = "claim_refresh"
    /\ UNCHANGED <<items, cancels, w_id, orm_items, order, pos, last_error,
                   last_processed_at, clearing>>
    /\ UNCHANGED rest

\* mutant: the loop is left after the first item that was run
AfterItem_FirstOnly(p, n) ==
    IF p = 0 /\ n > 0 THEN "loop" ELSE "finalize"

\* the for loop: the next item if there is one, else on to the finalization
AfterItem(p, n) == IF p + 1 > n THEN "finalize" ELSE "loop"

process_one_claim_refresh ==
    /\ pc = "claim_refresh"
    /\ orm_task' = tasks[w_id]
    /\ orm_items' = items[w_id]
    /\ order' = SortedByIndex(items[w_id])
    /\ pos' = 1
    /\ pc' = AfterItem(0, Len(items[w_id]))
    /\ UNCHANGED <<store, clock, w_id, last_error, last_processed_at, clearing>>
    /\ UNCHANGED rest

process_one_loop_refresh ==
    /\ pc = "loop"
    /\ orm_task' = tasks[w_id]
    /\ orm_items' = items[w_id]
    /\ IF tasks[w_id].status \in {CANCELED, DELETED}
       THEN pc' = "finalize" /\ pos' = pos
       ELSE IF items[w_id][order[pos]].status # QUEUED
            THEN pc' = AfterItem(pos, Len(order)) /\ pos' = pos + 1
            ELSE pc' = "item_start" /\ pos' = pos
    /\ UNCHANGED <<store, clock, w_id, order, last_error, last_processed_at,
                   clearing>>
    /\ UNCHANGED rest

process_one_item_start ==
    /\ pc = "item_start"
    /\ now <= MaxClock
    /\ LET r == order[pos]
       IN  /\ orm_items' = [orm_items EXCEPT ![r].status = RUNNING,
                                             ![r].started_at = now]
           /\ items' = [items EXCEPT ![w_id][r].status = RUNNING,
                                     ![w_id][r].started_at = now]
    /\ now' = now + 1
    /\ pc' = "handler"
    /\ UNCHANGED <<tasks, cancels, w_id, orm_task, order, pos, last_error,
                   last_processed_at, clearing>>
    /\ UNCHANGED rest

\* mutant: completed_items is incremented whatever the outcome
CompletedAfter_Always(outcome, n) == n + 1

\* task.completed_items = (task.completed_items or 0) + 1, on the completed paths only
CompletedAfter(outcome, n) == IF outcome = "completed" THEN n + 1 ELSE n

\* mutant: an item whose handler raised is recorded as completed
ItemStatusOf_RaisedCompletes(outcome) ==
    IF outcome = "failed" THEN FAILED ELSE COMPLETED

ItemStatusOf(outcome) == IF outcome = "completed" THEN COMPLETED ELSE FAILED

ItemResultOf(task_type, outcome) ==
    IF task_type \notin HandledTypes THEN "unknown task type"
    ELSE IF outcome = "completed" THEN "ok"
    ELSE IF outcome = "failed" THEN "error"
    ELSE "exception"

process_one_item_finish(outcome) ==
    /\ pc = "handler"
    /\ now <= MaxClock
    /\ orm_task.type \notin HandledTypes => outcome = "failed"
    /\ LET r == order[pos]
           st == ItemStatusOf(outcome)
           res == ItemResultOf(orm_task.type, outcome)
           done == CompletedAfter(outcome, orm_task.completed_items)
       IN  /\ orm_items' = [orm_items EXCEPT ![r].status = st, ![r].result = res,
                                             ![r].finished_at = now]
           /\ items' = [items EXCEPT ![w_id][r].status = st, ![w_id][r].result = res,
                                     ![w_id][r].finished_at = now]
           /\ orm_task' = [orm_task EXCEPT !.completed_items = done]
           /\ tasks' = [tasks EXCEPT ![w_id].completed_items = done]
    /\ last_error' = IF outcome = "exception" THEN "exception" ELSE last_error
    /\ now' = now + 1
    /\ pos' = pos + 1
    /\ pc' = "publish"
    /\ UNCHANGED <<cancels, w_id, order, last_processed_at, clearing>>
    /\ UNCHANGED rest

\* mutant: all() in place of any()
FinalStatus_All(rows) ==
    IF \A k \in 1..Len(rows) : rows[k].status = FAILED THEN FAILED ELSE COMPLETED

\* any(i.status == FAILED for i in task.items)
FinalStatus(rows) ==
    IF \E k \in 1..Len(rows) : rows[k].status = FAILED THEN FAILED ELSE COMPLETED

process_one_finalize ==
    /\ pc = "finalize"
    /\ now <= MaxClock
    /\ IF orm_task.status # CANCELED
       THEN /\ tasks' = [tasks EXCEPT ![w_id].status = FinalStatus(orm_items),
                                      ![w_id].finished_at = now]
            /\ now' = now + 1
            /\ pc' = "publish_final"
            /\ UNCHANGED <<w_id, orm_task, orm_items, order, pos, last_processed_at>>
       ELSE /\ tasks' = tasks
            /\ now' = now
            /\ last_processed_at' = now
            /\ pc' = "idle"
            /\ w_id' = 0
            /\ orm_task' = NoTask
            /\ orm_items' = <<>>
            /\ order' = <<>>
            /\ pos' = 0
    /\ UNCHANGED <<items, cancels, last_error, clearing>>
    /\ UNCHANGED rest

\* ---- get_task -------------------------------------------------------------
\* mutant: the snapshot reports the status the task was created with
get_task_StatusAsCreated(task_id) ==
    [id |-> task_id,
     status |-> QUEUED,
     total_items |-> tasks[task_id].total_items,
     completed_items |-> tasks[task_id].completed_items,
     items |-> [k \in 1..Len(items[task_id]) |-> items[task_id][k].status]]

\* the serialized task: id, status and counters, and its items' status values
get_task(task_id) ==
    [id |-> task_id,
     status |-> tasks[task_id].status,
     total_items |-> tasks[task_id].total_items,
     completed_items |-> tasks[task_id].completed_items,
     items |-> [k \in 1..Len(items[task_id]) |-> items[task_id][k].status]]

\* ---- the SSE broadcaster --------------------------------------------------
\* _SUBSCRIBER_QUEUE_MAXSIZE
SUBSCRIBER_QUEUE_MAXSIZE == 10

\* the event streams (GET /stream connections) that can be open at once
Streams == {"s1", "s2"}

\* q.full(): put_nowait raises asyncio.QueueFull
QueueFull(buf) == Len(buf) >= SUBSCRIBER_QUEUE_MAXSIZE

\* mutant: a full queue drops the message that is published
PutDropOldest_DropNew(buf, sse) ==
    IF ~QueueFull(buf) THEN Append(buf, sse) ELSE buf

\* mutant: the message is put at the head of the queue
PutDropOldest_AtHead(buf, sse) ==
    IF ~QueueFull(buf) THEN <<sse>> \o buf ELSE <<sse>> \o Tail(buf)

\* q.put_nowait(sse); on QueueFull q.get_nowait() and q.put_nowait(sse) again
PutDropOldest(buf, sse) ==
    IF ~QueueFull(buf) THEN Append(buf, sse)
    ELSE IF ~QueueFull(Tail(buf)) THEN Append(Tail(buf), sse)
    ELSE Tail(buf)

\* the second put_nowait failed as well: the subscriber is discarded
StillFull(buf) == QueueFull(buf) /\ QueueFull(Tail(buf))

\* subscribe_events(): a new queue is created and added to _subscribers
subscribe_events(s) ==
    /\ s \notin subscribers
    /\ subscribers' = subscribers \cup {s}
    /\ buffers' = [buffers EXCEPT ![s] = <<>>]
    /\ last_read' = [last_read EXCEPT ![s] = 0]
    /\ UNCHANGED <<published, store, clock, worker, clearing, creating, once, response>>
    /\ UNCHANGED ext

\* unsubscribe_events(q), from the finally of the stream's generator
unsubscribe_events(s) ==
    /\ s \in subscribers
    /\ subscribers' = subscribers \ {s}
    /\ buffers' = [buffers EXCEPT ![s] = <<>>]
    /\ UNCHANGED <<published, last_read, store, clock, worker, clearing, creating,
                   once, response>>
    /\ UNCHANGED ext

\* the stream's generator: msg = q.get_nowait(); yield msg
stream_read(s) ==
    /\ s \in subscribers
    /\ buffers[s] # <<>>
    /\ last_read' = [last_read EXCEPT ![s] = Head(buffers[s]).n]
    /\ buffers' = [buffers EXCEPT ![s] = Tail(buffers[s])]
    /\ UNCHANGED <<subscribers, published, store, clock, worker, clearing, creating,
                   once, response>>
    /\ UNCHANGED ext

\* the SSE message; n numbers the messages in the order they were formatted
\* (the string itself carries the event name and the JSON data only)
Sse(event, payload) == [n |-> published + 1, event |-> event, data |-> payload]

\* _publish_event(event, payload): no await inside, one step
publish_event(event, payload) ==
    /\ published' = published + 1
    /\ buffers' = [s \in Streams |->
                      IF s \in subscribers
                      THEN PutDropOldest(buffers[s], Sse(event, payload))
                      ELSE buffers[s]]
    /\ subscribers' = {s \in subscribers : ~StillFull(buffers[s])}
    /\ UNCHANGED last_read

\* list_tasks(): the task rows by descending created_at (at most 50 of them,
\* more than the model ever stores)
list_tasks ==
    LET n == Len(tasks)
        by_created == CHOOSE s \in [1..n -> 1..n] :
            /\ \A a, b \in 1..n : a # b => s[a] # s[b]
            /\ \A a, b \in 1..n :
                  a < b => \/ tasks[s[a]].created_at > tasks[s[b]].created_at
                           \/ (/\ tasks[s[a]].created_at = tasks[s[b]].created_at
                               /\ s[a] < s[b])
    IN  [k \in 1..n |-> [id |-> by_created[k], status |-> tasks[by_created[k]].status]]

\* publish_task_list()
publish_task_list ==
    /\ published < MaxPublishes
    /\ publish_event("tasks", list_tasks)
    /\ UNCHANGED <<store, clock, worker, clearing, creating, once, response>>
    /\ UNCHANGED ext

\* publish_task_update(task_id): get_task, then _publish_event if it was found
publish_task_update(task_id) ==
    /\ published < MaxPublishes
    /\ IF task_id \in TaskIds
       THEN publish_event("task_update", get_task(task_id))
       ELSE UNCHANGED bus
    /\ UNCHANGED <<store, clock, worker, clearing, creating, once, response>>
    /\ UNCHANGED ext

\* ---- the updates process_one publishes ------------------------------------
\* how a call of publish_task_update can end: the message is put to every
\* subscriber; get_task raises; json.dumps raises; every put_nowait raises, also
\* after the oldest message was taken out
PublishOutcomes == {"ok", "read_error", "serialization_error", "broken_buffer"}

\* publish_task_update(task.id): get_task and _publish_event, with every
\* exception caught and logged inside
PublishOrLog(task_id, outcome) ==
    IF outcome = "ok" /\ task_id \in TaskIds
    THEN publish_event("task_update", get_task(task_id))
    ELSE IF outcome = "broken_buffer" /\ task_id \in TaskIds
    THEN /\ published' = published + 1
         /\ subscribers' = {}
         /\ buffers' = [s \in Streams |-> <<>>]
         /\ UNCHANGED last_read
    ELSE UNCHANGED bus

\* mutant: a publish that failed ends the caller's work
AfterPublish_Propagates(outcome, next) == IF outcome = "ok" THEN next ELSE "idle"

\* the caller wraps the call in try/except and goes on whatever happened
AfterPublish(outcome, next) == next

\* the update that follows the commit of an item, then on to the next item
process_one_publish(outcome) ==
    /\ pc = "publish"
    /\ PublishOrLog(w_id, outcome)
    /\ pc' = AfterPublish(outcome, AfterItem(pos - 1, Len(order)))
    /\ UNCHANGED <<store, clock, w_id, orm_task, orm_items, order, pos, last_error,
                   last_processed_at, clearing, creating, once, response>>
    /\ UNCHANGED ext

\* the final update of a task that was finalized; last_processed_at is set and
\* process_one returns True
process_one_return(outcome) ==
    /\ pc = "publish_final"
    /\ PublishOrLog(w_id, outcome)
    /\ last_processed_at' = now
    /\ pc' = "idle"
    /\ w_id' = 0
    /\ orm_task' = NoTask
    /\ orm_items' = <<>>
    /\ order' = <<>>
    /\ pos' = 0
    /\ UNCHANGED <<store, clock, last_error, clearing, creating, once, response>>
    /\ UNCHANGED ext

\* ---- GET /stream ------------------------------------------------------------
\* no message
NoMessage == [event |-> "none", data |-> <<>>]

\* a connection of GET /stream: where its generator is suspended ("closed":
\* no connection), the first message it yielded and the event names of the
\* messages it yielded after the first
NoConn == [s \in Streams |-> [at |-> "closed", first |-> NoMessage, later |-> {}]]

\* the message the generator yields: the first of the connection or a later one
Yield(c, m) ==
    IF c.first = NoMessage THEN [c EXCEPT !.first = m]
    ELSE [c EXCEPT !.later = @ \cup {m.event}]

\* mutant: the connection is opened and the queue is not yet subscribed when
\* the generator starts
api_queues_stream_Unsubscribed(s) ==
    /\ conn[s].at = "closed"
    /\ s \notin subscribers
    /\ conn' = [conn EXCEPT ![s] = [at |-> "list_tasks", first |-> NoMessage,
                                    later |-> {}]]
    /\ UNCHANGED <<bus, store, clock, worker, clearing, creating, once,
                   response, media, runner, db>>

\* api_queues_stream(request): q = subscribe_events(), and the response that
\* will iterate event_generator() is returned
api_queues_stream(s) ==
    /\ conn[s].at = "closed"
    /\ s \notin subscribers
    /\ subscribers' = subscribers \cup {s}
    /\ buffers' = [buffers EXCEPT ![s] = <<>>]
    /\ last_read' = [last_read EXCEPT ![s] = 0]
    /\ conn' = [conn EXCEPT ![s] = [at |-> "list_tasks", first |-> NoMessage,
                                    later |-> {}]]
    /\ UNCHANGED <<published, store, clock, worker, clearing, creating, once,
                   response, media, runner, db>>

\* initial = await list_tasks(); yield the init event
event_generator_init(s) ==
    /\ conn[s].at = "list_tasks"
    /\ conn' = [conn EXCEPT ![s] =
                   [Yield(@, [event |-> "init", data |-> list_tasks])
                       EXCEPT !.at = "yield_init"]]
    /\ UNCHANGED <<store, clock, worker, clearing, bus, creating, once, response,
                   media, runner, db>>

\* the generator is resumed after the init event and enters the try block of
\* its loop
event_generator_loop(s) ==
    /\ conn[s].at = "yield_init"
    /\ conn' = [conn EXCEPT ![s].at = "loop"]
    /\ UNCHANGED <<store, clock, worker, clearing, bus, creating, once, response,
                   media, runner, db>>

\* msg = q.get_nowait(); yield msg
event_generator_msg(s) ==
    /\ conn[s].at = "loop"
    /\ s \in subscribers
    /\ buffers[s] # <<>>
    /\ last_read' = [last_read EXCEPT ![s] = Head(buffers[s]).n]
    /\ buffers' = [buffers EXCEPT ![s] = Tail(buffers[s])]
    /\ conn' = [conn EXCEPT ![s] =
                   Yield(@, [event |-> Head(buffers[s]).event,
                             data |-> Head(buffers[s]).data])]
    /\ UNCHANGED <<subscribers, published, store, clock, worker, clearing,
                   creating, once, response, media, runner, db>>

\* asyncio.QueueEmpty and ping_interval seconds since the last message: the
\* ping event is yielded
event_generator_ping(s) ==
    /\ conn[s].at = "loop"
    /\ s \in subscribers => buffers[s] = <<>>
    /\ "ping" \notin conn[s].later
    /\ conn' = [conn EXCEPT ![s] = Yield(@, [event |-> "ping", data |-> <<>>])]
    /\ UNCHANGED <<store, clock, worker, clearing, bus, creating, once, response,
                   media, runner, db>>

\* the finally clause with unsubscribe_events(q) belongs to the try block of
\* the loop: a generator that is closed or cancelled before it entered the
\* block runs no unsubscribe
UnsubscribesOnClose(at) == at = "loop"

\* the client disconnects: the response's task is cancelled at the await the
\* generator is suspended at, or the generator is closed at its yield
client_disconnect(s) ==
    /\ conn[s].at # "closed"
    /\ conn' = [conn EXCEPT ![s].at = "closed"]
    /\ IF UnsubscribesOnClose(conn[s].at)
       THEN /\ subscribers' = subscribers \ {s}
            /\ buffers' = [buffers EXCEPT ![s] = <<>>]
            /\ UNCHANGED <<published, last_read>>
       ELSE UNCHANGED bus
    /\ UNCHANGED <<store, clock, worker, clearing, creating, once, response,
                   media, runner, db>>

\* ---- init_db: the startup migration and normalization pass ------------------
\* rows and startup passes the model stores
MaxLegacy == 2
MaxPasses == 2

\* status texts a database written by an earlier version can hold
RawStatuses == {"queued", "QUEUED", "RUNNING"}

\* SQLite's LOWER() on the status texts
Lower(st) ==
    CASE st = "QUEUED" -> "queued"
      [] st = "RUNNING" -> "running"
      [] OTHER -> st

\* the .sql files of the migrations directory in lexicographical order
MigrationFiles == <<"001_normalize_media_type.sql">>

\* the database file: the status column of the two queue tables, the names in
\* the migrations table, the files executed so far (in order), where init_db
\* is, the passes completed, and whether a row was written since the last pass
NoDb == [at |-> "down", queue_tasks |-> <<>>, queue_items |-> <<>>,
         ledger |-> {}, executed |-> <<>>, passes |-> 0, fresh |-> FALSE]

\* an earlier version of the program inserted a row with the status text st
legacy_insert(table, st) ==
    /\ db.at = "down"
    /\ \/ /\ table = "queue_tasks"
          /\ Len(db.queue_tasks) < MaxLegacy
          /\ db' = [db EXCEPT !.queue_tasks = Append(@, st), !.fresh = FALSE]
       \/ /\ table = "queue_items"
          /\ Len(db.queue_items) < MaxLegacy
          /\ db' = [db EXCEPT !.queue_items = Append(@, st), !.fresh = FALSE]
    /\ UNCHANGED <<store, clock, worker, clearing, bus, creating, once, response,
                   media, runner, conn>>

\* the files of MigrationFiles that the migrations table does not name
Unapplied(ledger) ==
    SelectSeq(MigrationFiles, LAMBDA name : name \notin ledger)

\* migrate_db(): one transaction that creates the migrations table and
\* executes and records each file that is not recorded yet
migrate_db(d) ==
    [d EXCEPT !.at = "migrated",
              !.executed = @ \o Unapplied(d.ledger),
              !.ledger = @ \cup {MigrationFiles[k] : k \in 1..Len(MigrationFiles)}]

\* init_db(), up to the end of migrate_db
init_db_migrate ==
    /\ db.at = "down"
    /\ db.passes < MaxPasses
    /\ db' = migrate_db(db)
    /\ UNCHANGED <<store, clock, worker, clearing, bus, creating, once, response,
                   media, runner, conn>>

\* init_db(), the last transaction: UPDATE queue_tasks SET status =
\* LOWER(status); no statement updates queue_items
init_db_normalize ==
    /\ db.at = "migrated"
    /\ db' = [db EXCEPT !.at = "up",
                        !.queue_tasks = [k \in 1..Len(@) |-> Lower(@[k])],
                        !.passes = @ + 1,
                        !.fresh = TRUE]
    /\ UNCHANGED <<store, clock, worker, clearing, bus, creating, once, response,
                   media, runner, conn>>

\* the process ends; the database file stays
process_exit ==
    /\ db.at = "up"
    /\ db' = [db EXCEPT !.at = "down"]
    /\ UNCHANGED <<store, clock, worker, clearing, bus, creating, once, response,
                   media, runner, conn>>

\* ---- create_task, await by await ------------------------------------------
\* a call of create_task: the task it builds, the number of payloads it was
\* given, and the id the insert assigned (0 before the insert, -1 once the call
\* has raised)
CreateCalls == Len(tasks) + Cardinality({c \in creating : c.id <= 0})

\* the QueueTask object is built and created_at is read; nothing is stored yet
create_task_begin(task_type, n) ==
    /\ now <= MaxClock
    /\ creating' = creating \cup {[task |-> NewTask(task_type, n), n |-> n, id |-> 0]}
    /\ now' = now + 1
    /\ UNCHANGED <<store, cancels, worker, clearing, once, bus, response>>
    /\ UNCHANGED ext

\* flush and commit: the task row and its item rows are inserted in one
\* transaction; the id is assigned by the insert
create_task_commit(c) ==
    /\ c \in creating
    /\ c.id = 0
    /\ tasks' = Append(tasks, c.task)
    /\ items' = Append(items, [k \in 1..c.n |-> NewItem(k - 1)])
    /\ creating' = (creating \ {c}) \cup {[c EXCEPT !.id = Len(tasks) + 1]}
    /\ UNCHANGED <<clock, worker, clearing, once, bus, response>>
    /\ UNCHANGED ext

\* flush or commit raises: the session is closed without a commit, the
\* transaction is rolled back and the exception leaves create_task
create_task_abort(c) ==
    /\ c \in creating
    /\ c.id = 0
    /\ creating' = (creating \ {c}) \cup {[c EXCEPT !.id = -1]}
    /\ UNCHANGED <<store, clock, worker, clearing, once, bus, response>>
    /\ UNCHANGED ext

\* after the commit: publish_task_update(task.id), then the task is returned
create_task_publish(c) ==
    /\ c \in creating
    /\ c.id > 0
    /\ published < MaxPublishes
    /\ IF c.id \in TaskIds
       THEN publish_event("task_update", get_task(c.id))
       ELSE UNCHANGED bus
    /\ creating' = creating \ {c}
    /\ UNCHANGED <<store, clock, worker, clearing, once, response>>
    /\ UNCHANGED ext

\* after the commit, with the ways the publish can end: the task is returned
\* in each of them
create_task_return(c, outcome) ==
    /\ c \in creating
    /\ c.id > 0
    /\ PublishOrLog(c.id, outcome)
    /\ creating' = creating \ {c}
    /\ UNCHANGED <<store, clock, worker, clearing, once, response>>
    /\ UNCHANGED ext

\* publish_task_update(task_id) as cancel_task and clear_queued_tasks call it
\* after their commit, with the ways it can end
publish_task_update_logs(task_id, outcome) ==
    /\ PublishOrLog(task_id, outcome)
    /\ UNCHANGED <<store, clock, worker, clearing, creating, once, response>>
    /\ UNCHANGED ext

\* ---- a second invocation of process_one (POST /worker/run-once) -----------
\* the same steps as the background loop's invocation, on its own session and
\* its own local variables; last_error and last_processed_at are attributes of
\* the one worker object both invocations run on
run_once_select ==
    /\ once.pc = "idle"
    /\ IF QueuedIds = {}
       THEN once' = once
       ELSE once' = [once EXCEPT !.pc = "claim", !.id = FirstQueued,
                                 !.task = tasks[FirstQueued],
                                 !.items = items[FirstQueued]]
    /\ UNCHANGED <<store, clock, worker, clearing, creating, bus, response>>
    /\ UNCHANGED ext

run_once_claim ==
    /\ once.pc = "claim"
    /\ now <= MaxClock
    /\ tasks' = [tasks EXCEPT ![once.id].status = RUNNING,
                              ![once.id].started_at = now]
    /\ once' = [once EXCEPT !.pc = "claim_refresh", !.task.status = RUNNING,
                            !.task.started_at = now]
    /\ now' = now + 1
    /\ UNCHANGED <<items, cancels, worker, clearing, creating, bus, response>>
    /\ UNCHANGED ext

run_once_claim_refresh ==
    /\ once.pc = "claim_refresh"
    /\ once' = [once EXCEPT !.pc = AfterItem(0, Len(items[once.id])),
                            !.task = tasks[once.id],
                            !.items = items[once.id],
                            !.order = SortedByIndex(items[once.id]),
                            !.pos = 1]
    /\ UNCHANGED <<store, clock, worker, clearing, creating, bus, response>>
    /\ UNCHANGED ext

run_once_loop_refresh ==
    /\ once.pc = "loop"
    /\ once' = [once EXCEPT
          !.task = tasks[once.id],
          !.items = items[once.id],
          !.pc = IF tasks[once.id].status \in {CANCELED, DELETED} THEN "finalize"
                 ELSE IF items[once.id][once.order[once.pos]].status # QUEUED
                      THEN AfterItem(once.pos, Len(once.order))
                      ELSE "item_start",
          !.pos = IF /\ tasks[once.id].status \notin {CANCELED, DELETED}
                     /\ items[once.id][once.order[once.pos]].status # QUEUED
                  THEN once.pos + 1 ELSE once.pos]
    /\ UNCHANGED <<store, clock, worker, clearing, creating, bus, response>>
    /\ UNCHANGED ext

run_once_item_start ==
    /\ once.pc = "item_start"
    /\ now <= MaxClock
    /\ LET r == once.order[once.pos]
       IN  /\ once' = [once EXCEPT !.pc = "handler",
                                   !.items[r].status = RUNNING,
                                   !.items[r].started_at = now]
           /\ items' = [items EXCEPT ![once.id][r].status = RUNNING,
                                     ![once.id][r].started_at = now]
    /\ now' = now + 1
    /\ UNCHANGED <<tasks, cancels, worker, clearing, creating, bus, response>>
    /\ UNCHANGED ext

run_once_item_finish(outcome) ==
    /\ once.pc = "handler"
    /\ now <= MaxClock
    /\ once.task.type \notin HandledTypes => outcome = "failed"
    /\ LET r == once.order[once.pos]
           st == ItemStatusOf(outcome)
           res == ItemResultOf(once.task.type, outcome)
           done == CompletedAfter(outcome, once.task.completed_items)
       IN  /\ once' = [once EXCEPT !.pc = "publish",
                                   !.pos = once.pos + 1,
                                   !.items[r].status = st,
                                   !.items[r].result = res,
                                   !.items[r].finished_at = now,
                                   !.task.completed_items = done]
           /\ items' = [items EXCEPT ![once.id][r].status = st,
                                     ![once.id][r].result = res,
                                     ![once.id][r].finished_at = now]
           /\ tasks' = [tasks EXCEPT ![once.id].completed_items = done]
    /\ last_error' = IF outcome = "exception" THEN "exception" ELSE last_error
    /\ now' = now + 1
    /\ UNCHANGED <<cancels, pc, w_id, orm_task, orm_items, order, pos,
                   last_processed_at, clearing, creating, bus, response>>
    /\ UNCHANGED ext

run_once_finalize ==
    /\ once.pc = "finalize"
    /\ now <= MaxClock
    /\ IF once.task.status # CANCELED
       THEN /\ tasks' = [tasks EXCEPT ![once.id].status = FinalStatus(once.items),
                                      ![once.id].finished_at = now]
            /\ now' = now + 1
            /\ once' = [once EXCEPT !.pc = "publish_final"]
            /\ UNCHANGED last_processed_at
       ELSE /\ tasks' = tasks
            /\ now' = now
            /\ last_processed_at' = now
            /\ once' = NoOnce
    /\ UNCHANGED <<items, cancels, pc, w_id, orm_task, orm_items, order, pos,
                   last_error, clearing, creating, bus, response>>
    /\ UNCHANGED ext

run_once_publish(outcome) ==
    /\ once.pc = "publish"
    /\ PublishOrLog(once.id, outcome)
    /\ once' = [once EXCEPT !.pc = AfterItem(once.pos - 1, Len(once.order))]
    /\ UNCHANGED <<store, clock, worker, clearing, creating, response>>
    /\ UNCHANGED ext

run_once_return(outcome) ==
    /\ once.pc = "publish_final"
    /\ PublishOrLog(once.id, outcome)
    /\ last_processed_at' = now
    /\ once' = NoOnce
    /\ UNCHANGED <<store, clock, pc, w_id, orm_task, orm_items, order, pos,
                   last_error, clearing, creating, response>>
    /\ UNCHANGED ext

\* ---- the handlers of refresh_metadata and sync_watch_history ---------------
\* the provider the routers put in the task meta (None when not forced)
Providers == {"none", "tmdb", "omdb"}

\* the rating keys Plex and Tautulli answer with
RatingKeys == {1, 2}

Payload(key, id, imdb_id) == [key |-> key, id |-> id, imdb_id |-> imdb_id]

\* item payloads of refresh_metadata: a movie, a show (with or without an
\* imdb_id override), an episode, and a payload with none of the three ids
RefreshPayloads ==
    {Payload("movie_id", 1, FALSE), Payload("show_id", 1, FALSE),
     Payload("show_id", 1, TRUE), Payload("episode_id", 1, FALSE),
     Payload("none", 0, FALSE)}

\* item payloads of sync_watch_history
SyncPayloads == {Payload("movie_id", m, FALSE) : m \in Movies} \cup {Payload("none", 0, FALSE)}

\* what the world answers while one item is handled: whether the row the
\* payload names exists, whether the episode's show has a tmdb_id, what each
\* provider finds, the rating key a lookup resolves to, whether a call raises
Answers ==
    [found : BOOLEAN, linked : BOOLEAN, tmdb_hit : BOOLEAN, omdb_hit : BOOLEAN,
     plex_hit : BOOLEAN, search_hit : BOOLEAN, history : BOOLEAN,
     rk : RatingKeys, raises : BOOLEAN]

\* a call to a provider: which one, with which rating key, and whether it
\* returned a result
Call(fn, arg, hit) == [fn |-> fn, arg |-> arg, hit |-> hit]

\* a LogEntry row
LogEntry(level, about) ==
    [level |-> level, logger_name |-> "QueueWorker", about |-> about]

\* what a handler leaves: the item's status and result, the provider calls it
\* made, the log entries it persisted and the rating_key of the movie
Handled(status, result, calls, logs, rating_key) ==
    [status |-> status, result |-> result, calls |-> calls, logs |-> logs,
     rating_key |-> rating_key]

NoMetadataNote == "note: no metadata found from TMDB or OMDb"

\* refresh_metadata, 'movie_id' in payload: TMDB when configured, then OMDb
RefreshMovie(cfg, a) ==
    LET tmdb == IF cfg.tmdb_key THEN {Call("tmdb", 0, a.tmdb_hit)} ELSE {}
        omdb == {Call("omdb", 0, a.omdb_hit)}
        tried == <<LogEntry("INFO", "tmdb_tried")>>
    IN  IF ~a.found THEN Handled(FAILED, "movie not found", {}, <<>>, 0)
        ELSE IF cfg.tmdb_key /\ a.tmdb_hit
             THEN Handled(COMPLETED, "updated_from tmdb", tmdb, <<>>, 0)
        ELSE IF ~cfg.omdb_key
             THEN Handled(COMPLETED, "note: no provider available", tmdb, tried, 0)
        ELSE IF a.omdb_hit
             THEN Handled(COMPLETED, "updated_from omdb", tmdb \cup omdb, tried, 0)
        ELSE Handled(COMPLETED, NoMetadataNote, tmdb \cup omdb,
                     Append(tried, LogEntry("INFO", "omdb_params")), 0)

\* mutant: a show for which TMDB finds nothing is recorded as failed, as an
\* episode is
RefreshShow_NoResultFails(cfg, p, a) ==
    LET omdb == IF p.imdb_id /\ cfg.omdb_key THEN {Call("omdb", 0, a.omdb_hit)} ELSE {}
        tmdb == {Call("tmdb", 0, a.tmdb_hit)}
    IN  IF ~a.found THEN Handled(FAILED, "show not found", {}, <<>>, 0)
        ELSE IF ~cfg.tmdb_key THEN Handled(FAILED, "tmdb not configured", {}, <<>>, 0)
        ELSE IF a.tmdb_hit
             THEN Handled(COMPLETED, "updated_from tmdb", omdb \cup tmdb, <<>>, 0)
        ELSE Handled(FAILED, "show not found on tmdb", omdb \cup tmdb, <<>>, 0)

\* refresh_metadata, 'show_id' in payload: OMDb for an imdb_id override, then TMDB
RefreshShow(cfg, p, a) ==
    LET omdb == IF p.imdb_id /\ cfg.omdb_key THEN {Call("omdb", 0, a.omdb_hit)} ELSE {}
        tmdb == {Call("tmdb", 0, a.tmdb_hit)}
    IN  IF ~a.found THEN Handled(FAILED, "show not found", {}, <<>>, 0)
        ELSE IF ~cfg.tmdb_key THEN Handled(FAILED, "tmdb not configured", {}, <<>>, 0)
        ELSE IF a.tmdb_hit
             THEN Handled(COMPLETED, "updated_from tmdb", omdb \cup tmdb, <<>>, 0)
        ELSE Handled(COMPLETED, NoMetadataNote, omdb \cup tmdb,
                     <<LogEntry("INFO", "tmdb_tried")>>, 0)

\* refresh_metadata, 'episode_id' in payload: the season from TMDB
RefreshEpisode(cfg, a) ==
    IF ~a.found THEN Handled(FAILED, "episode not found", {}, <<>>, 0)
    ELSE IF ~a.linked THEN Handled(FAILED, "show missing tmdb id", {}, <<>>, 0)
    ELSE IF ~cfg.tmdb_key THEN Handled(FAILED, "tmdb not configured", {}, <<>>, 0)
    ELSE IF a.tmdb_hit
         THEN Handled(COMPLETED, "updated_from tmdb", {Call("tmdb", 0, TRUE)}, <<>>, 0)
    ELSE Handled(FAILED, "episode not found on tmdb", {Call("tmdb", 0, FALSE)}, <<>>, 0)

\* the refresh_metadata branch; a payload with none of the three ids falls
\* through every elif and leaves the item as it is, running
RefreshMetadata(cfg, p, a) ==
    IF p.key = "movie_id" THEN RefreshMovie(cfg, a)
    ELSE IF p.key = "show_id" THEN RefreshShow(cfg, p, a)
    ELSE IF p.key = "episode_id" THEN RefreshEpisode(cfg, a)
    ELSE Handled(RUNNING, NoResult, {}, <<>>, 0)

\* mutant: the Plex lookup is made whether or not a rating_key is stored
PlexLookup_Always(cfg, stored, a) ==
    IF cfg.plex THEN {Call("plex", 0, a.plex_hit)} ELSE {}

\* "Try Plex when rating_key missing"
PlexLookup(cfg, stored, a) ==
    IF stored = 0 /\ cfg.plex THEN {Call("plex", 0, a.plex_hit)} ELSE {}

\* the sync_watch_history branch; stored is the movie's rating_key
SyncWatchHistory(cfg, p, stored, a) ==
    LET plex == PlexLookup(cfg, stored, a)
        resolved == IF stored # 0 THEN stored
                    ELSE IF \E c \in plex : c.hit THEN a.rk ELSE 0
        watched == IF a.history THEN "watched: true" ELSE "watched: false"
    IN  IF p.key # "movie_id" THEN Handled(FAILED, "no movie_id provided", {}, <<>>, stored)
        ELSE IF ~a.found THEN Handled(FAILED, "movie not found", {}, <<>>, stored)
        ELSE IF ~cfg.tautulli
             THEN Handled(FAILED, "tautulli not configured", {}, <<>>, stored)
        ELSE IF resolved # 0
             THEN Handled(COMPLETED, watched,
                          plex \cup {Call("tautulli.get_history", resolved, a.history)},
                          <<>>, resolved)
        ELSE Handled(COMPLETED, watched,
                     plex \cup {Call("tautulli.search_movie_history", 0, a.search_hit)},
                     <<>>, IF a.search_hit THEN a.rk ELSE stored)

\* the handler of the task's type
Handler(task_type, cfg, p, stored, a) ==
    IF task_type = "refresh_metadata" THEN RefreshMetadata(cfg, p, a)
    ELSE SyncWatchHistory(cfg, p, stored, a)

\* the answers that matter to refresh_metadata, and to sync_watch_history
RefreshAnswers ==
    {a \in Answers : ~a.plex_hit /\ ~a.search_hit /\ ~a.history /\ a.rk = 1}

SyncAnswers ==
    {a \in Answers : a.linked /\ ~a.tmdb_hit /\ ~a.omdb_hit /\ ~a.raises}

\* the payload lists of a task, of one item up to MaxItems items
PayloadLists(payloads) ==
    UNION {[1..n -> payloads] : n \in 1..MaxItems}

\* the settings routers store a provider key or a server
configure(cfg) ==
    /\ media' = [media EXCEPT !.config = cfg]
    /\ UNCHANGED <<store, clock, worker, clearing, creating, once, bus, response,
                   runner, conn, db>>

\* a router enqueues a task: create_task(task_type, items, meta)
enqueue(task_type, payloads, provider) ==
    /\ Len(tasks) < MaxTasks
    /\ now <= MaxClock
    /\ tasks' = Append(tasks, NewTask(task_type, Len(payloads)))
    /\ items' = Append(items, [k \in 1..Len(payloads) |-> NewItem(k - 1)])
    /\ now' = now + 1
    /\ media' = [media EXCEPT !.meta = Append(@, provider),
                              !.payload = Append(@, payloads)]
    /\ UNCHANGED <<cancels, worker, clearing, creating, once, bus, response,
                   runner, conn, db>>

\* the item of the loop is handled and committed; a handler that raises out of
\* a provider call is caught by the except clause of the loop
process_one_item_handle(a) ==
    /\ pc = "handler"
    /\ now <= MaxClock
    /\ orm_task.type \in {"refresh_metadata", "sync_watch_history"}
    /\ LET r == order[pos]
           p == media.payload[w_id][r]
           stored == IF p.id \in Movies THEN media.rating_key[p.id] ELSE 0
           h == Handler(orm_task.type, media.config, p, stored, a)
           raised == a.raises /\ orm_task.type = "refresh_metadata" /\ h.calls # {}
           st == IF raised THEN FAILED ELSE h.status
           res == IF raised THEN "exception" ELSE h.result
           done == IF st = COMPLETED THEN orm_task.completed_items + 1
                   ELSE orm_task.completed_items
           failure == IF st = FAILED THEN <<LogEntry("ERROR", "item_failed")>> ELSE <<>>
       IN  /\ orm_items' = [orm_items EXCEPT ![r].status = st, ![r].result = res,
                                             ![r].finished_at = now]
           /\ items' = [items EXCEPT ![w_id][r].status = st, ![w_id][r].result = res,
                                     ![w_id][r].finished_at = now]
           /\ orm_task' = [orm_task EXCEPT !.completed_items = done]
           /\ tasks' = [tasks EXCEPT ![w_id].completed_items = done]
           /\ last_error' = IF raised THEN "exception" ELSE last_error
           /\ media' = [media EXCEPT
                 !.logs = (IF raised THEN @ ELSE @ \o h.logs) \o failure,
                 !.rating_key = IF orm_task.type = "sync_watch_history" /\ p.id \in Movies
                                THEN [@ EXCEPT ![p.id] = h.rating_key] ELSE @,
                 !.last = [task |-> w_id, item |-> r, calls |-> h.calls]]
    /\ now' = now + 1
    /\ pos' = pos + 1
    /\ pc' = "publish"
    /\ UNCHANGED <<cancels, w_id, order, last_processed_at, clearing, creating,
                   once, bus, response, runner, conn, db>>

\* ---- QueueWorker.start, stop, run -----------------------------------------
\* mutant: the router does not look at the worker before starting it
is_running_Never(r) == FALSE

\* self._task is not None and not self._task.done() and not self._stop.is_set()
is_running(r) == r.task # 0 /\ r.at[r.task] # "done" /\ ~r.stop

\* the loops that were created and have not exited
ActiveLoops(r) == {l \in Loops : r.at[l] \notin {"none", "done"}}

\* the places for a new task: never used, or left by a task that is done and
\* that no stop() still waits for
FreeLoops(r) == {l \in Loops : r.at[l] \in {"none", "done"} /\ l \notin r.waiting}

\* mutant: the stop signal is tested after every await of process_one
BetweenCalls_Anywhere(l) == TRUE

\* loop l is between two calls of process_one
BetweenCalls(l) == IF l = 1 THEN pc = "idle" ELSE once.pc = "idle"

\* QueueWorker.start: _stop.clear(), then a new task that runs run()
start(r, l, answer) ==
    [r EXCEPT !.stop = FALSE, !.at[l] = "check", !.task = l, !.answer = answer]

\* QueueWorker.stop up to its await: _stop.set(), then wait for self._task
stop(r, answer) ==
    [r EXCEPT !.stop = TRUE, !.stopped = TRUE,
              !.waiting = IF r.task # 0 THEN @ \cup {r.task} ELSE @,
              !.answer = answer]

\* application startup: the worker is created and started
lifespan_startup ==
    /\ runner = NoRunner
    /\ runner' = start(runner, 1, "started")
    /\ UNCHANGED <<store, clock, worker, clearing, creating, once, bus, response,
                   media, conn, db>>

\* application shutdown: stop() on the worker, whatever its state
lifespan_shutdown ==
    /\ runner.task # 0
    /\ ~runner.down
    /\ runner' = [stop(runner, "shutdown") EXCEPT !.down = TRUE]
    /\ UNCHANGED <<store, clock, worker, clearing, creating, once, bus, response,
                   media, conn, db>>

\* POST /worker/start
api_worker_start(debug) ==
    /\ runner.task # 0
    /\ ~runner.down
    /\ IF ~debug THEN runner' = [runner EXCEPT !.answer = "403"]
       ELSE IF is_running(runner)
            THEN runner' = [runner EXCEPT !.answer = "worker already running"]
       ELSE \E l \in FreeLoops(runner) :
               /\ \A k \in FreeLoops(runner) : l <= k
               /\ runner' = start(runner, l, "started")
    /\ UNCHANGED <<store, clock, worker, clearing, creating, once, bus, response,
                   media, conn, db>>

\* POST /worker/stop, up to the await inside stop()
api_worker_stop(debug) ==
    /\ runner.task # 0
    /\ ~runner.down
    /\ IF ~debug THEN runner' = [runner EXCEPT !.answer = "403"]
       ELSE IF ~is_running(runner)
            THEN runner' = [runner EXCEPT !.answer = "worker not running"]
       ELSE runner' = stop(runner, "stopping")
    /\ UNCHANGED <<store, clock, worker, clearing, creating, once, bus, response,
                   media, conn, db>>

\* await self._task ends: the stop() calls that wait for loop l return
stop_return(l) ==
    /\ l \in runner.waiting
    /\ runner.at[l] = "done"
    /\ runner' = [runner EXCEPT !.waiting = @ \ {l}]
    /\ UNCHANGED <<store, clock, worker, clearing, creating, once, bus, response,
                   media, conn, db>>

\* run(): the while test finds _stop set and the loop ends
run_exit(l) ==
    /\ runner.at[l] = "check"
    /\ BetweenCalls(l)
    /\ runner.stop
    /\ runner' = [runner EXCEPT !.at[l] = "done"]
    /\ UNCHANGED <<store, clock, worker, clearing, creating, once, bus, response,
                   media, conn, db>>

\* run(): process_one finds no queued task and returns False; the loop sleeps
run_sleep(l) ==
    /\ runner.at[l] = "check"
    /\ BetweenCalls(l)
    /\ ~runner.stop
    /\ QueuedIds = {}
    /\ runner' = [runner EXCEPT !.at[l] = "sleep"]
    /\ UNCHANGED <<store, clock, worker, clearing, creating, once, bus, response,
                   media, conn, db>>

\* run(): asyncio.sleep(poll_interval) is over
run_wake(l) ==
    /\ runner.at[l] = "sleep"
    /\ runner' = [runner EXCEPT !.at[l] = "check"]
    /\ UNCHANGED <<store, clock, worker, clearing, creating, once, bus, response,
                   media, conn, db>>

\* run(): the while test finds _stop clear and loop l calls process_one, which
\* finds a queued task
run_calls_process_one(l) ==
    /\ runner.at[l] = "check"
    /\ ~runner.stop
    /\ QueuedIds # {}

\* ---- store errors and restarts ----------------------------------------------
\* where process_one awaits the store outside a try block: an exception raised
\* there leaves process_one (the publishes are inside try blocks)
StoreAwaits == {"claim", "claim_refresh", "loop", "item_start", "handler", "finalize"}

\* the store raises at the await the worker's invocation is at: the session is
\* closed without a commit and the exception leaves process_one
process_one_raises ==
    /\ pc \in StoreAwaits
    /\ pc' = "idle"
    /\ w_id' = 0
    /\ orm_task' = NoTask
    /\ orm_items' = <<>>
    /\ order' = <<>>
    /\ pos' = 0
    /\ UNCHANGED <<store, clock, last_error, last_processed_at, clearing, creating,
                   once, bus, response, media, conn, db>>

\* the same for the second invocation
run_once_raises ==
    /\ once.pc \in StoreAwaits
    /\ once' = NoOnce
    /\ UNCHANGED <<store, clock, worker, clearing, creating, bus, response, media,
                   conn, db>>

\* the exception is logged by its caller and nothing else happens
process_one_raise == process_one_raises /\ UNCHANGED runner

\* the process ends at any point and the application is started again: a new
\* QueueWorker on the rows the store holds
worker_restart ==
    /\ pc' = "idle"
    /\ w_id' = 0
    /\ orm_task' = NoTask
    /\ orm_items' = <<>>
    /\ order' = <<>>
    /\ pos' = 0
    /\ last_error' = "none"
    /\ last_processed_at' = NoTime
    /\ once' = NoOnce
    /\ UNCHANGED <<store, clock, clearing, creating, bus, response>>
    /\ UNCHANGED ext

\* mutant: an exception ends the loop
OnException_Ends(r, l) == [r EXCEPT !.at[l] = "done"]

\* run(): except Exception: the error is logged and the loop sleeps one poll
\* interval
OnException(r, l) == [r EXCEPT !.at[l] = "sleep"]

\* run() of loop l catches the exception that left its process_one call
run_catches(l) ==
    /\ runner.at[l] = "check"
    /\ IF l = 1 THEN process_one_raises ELSE run_once_raises
    /\ runner' = OnException(runner, l)

\* ---- clear_queued_tasks called with a scope --------------------------------
\* the scope values the callers pass
Scopes == {"current", "history", "all"}

\* clear_queued_tasks(scope=...), as the router, the script and the tests call
\* it: the function takes older_than_seconds only, so binding the arguments
\* raises TypeError and no statement of its body runs
clear_queued_tasks_scope(scope) ==
    /\ response' = [scope |-> scope, raised |-> "TypeError", http |-> 0,
                    tasks_cleared |-> 0]
    /\ UNCHANGED <<store, clock, worker, clearing, creating, once, bus>>
    /\ UNCHANGED ext

\* the status the router answers with: its own HTTPException(403), 400 for a
\* ValueError of the service call (the only exception it catches), 500 for any
\* other exception, which leaves the handler
HttpStatusOf(raised) ==
    IF raised = "HTTPException" THEN 403
    ELSE IF raised = "ValueError" THEN 400
    ELSE IF raised = "none" THEN 200
    ELSE 500

\* POST /tasks/clear: refused outside debug mode, else the call
\* clear_queued_tasks(scope=scope, older_than_seconds=...), which raises
\* TypeError for every scope
api_clear_tasks(scope, debug) ==
    /\ response' = [scope |-> scope,
                    raised |-> IF debug THEN "TypeError" ELSE "HTTPException",
                    http |-> HttpStatusOf(IF debug THEN "TypeError" ELSE "HTTPException"),
                    tasks_cleared |-> 0]
    /\ UNCHANGED <<store, clock, worker, clearing, creating, once, bus>>
    /\ UNCHANGED ext

\* a test's direct UPDATE of a task's status, which puts tasks of every status
\* in the store
seed_status(task_id, st) ==
    /\ task_id \in TaskIds
    /\ tasks' = [tasks EXCEPT ![task_id].status = st]
    /\ UNCHANGED <<items, clock, worker, clearing, creating, once, bus, response>>
    /\ UNCHANGED ext

\* ---- the system -----------------------------------------------------------
Init ==
    /\ tasks = <<>>
    /\ items = <<>>
    /\ now = 1
    /\ cancels = 0
    /\ pc = "idle"
    /\ w_id = 0
    /\ orm_task = NoTask
    /\ orm_items = <<>>
    /\ order = <<>>
    /\ pos = 0
    /\ last_error = "none"
    /\ last_processed_at = NoTime
    /\ clear_pc = "idle"
    /\ clear_ids = {}
    /\ creating = {}
    /\ once = NoOnce
    /\ subscribers = {}
    /\ buffers = [s \in Streams |-> <<>>]
    /\ published = 0
    /\ last_read = [s \in Streams |-> 0]
    /\ response = NoResponse
    /\ media = NoMedia
    /\ runner = NoRunner
    /\ conn = NoConn
    /\ db = NoDb

Next ==
    \/ \E ty \in TaskTypes, n \in 0..MaxItems : create_task(ty, n)
    \/ \E id \in 1..MaxTasks : cancel_task(id)
    \/ \E f \in BOOLEAN, s \in 0..MaxOlder : clear_queued_tasks_select(f, s)
    \/ clear_queued_tasks_commit
    \/ process_one_select
    \/ process_one_claim
    \/ process_one_claim_refresh
    \/ process_one_loop_refresh
    \/ process_one_item_start
    \/ \E o \in Outcomes : process_one_item_finish(o)
    \/ process_one_finalize
    \/ process_one_publish("ok")
    \/ process_one_return("ok")

Spec == Init /\ [][Next]_vars

\* the broadcaster alone: streams come and go and read while the task list is
\* published over and over
NextBus ==
    \/ \E s \in Streams : subscribe_events(s)
    \/ \E s \in Streams : unsubscribe_events(s)
    \/ \E s \in Streams : stream_read(s)
    \/ publish_task_list

SpecBus == Init /\ [][NextBus]_vars

\* the service as the HTTP handlers drive it: tasks are created and canceled and
\* updates are published to the open streams
NextService ==
    \/ \E ty \in TaskTypes, n \in 0..MaxItems :
          CreateCalls < MaxTasks /\ create_task_begin(ty, n)
    \/ \E c \in creating : create_task_commit(c)
    \/ \E c \in creating : create_task_abort(c)
    \/ \E c \in creating : published < MaxUpdates /\ create_task_publish(c)
    \/ \E id \in 1..MaxTasks : cancel_task(id)
    \/ \E id \in 1..MaxTasks : published < MaxUpdates /\ publish_task_update(id)
    \/ \E s \in Streams : subscribe_events(s)
    \/ \E s \in Streams : unsubscribe_events(s)

SpecService == Init /\ [][NextService]_vars

\* the purge by scope, on a store that holds tasks of every status
NextPurge ==
    \/ \E ty \in TaskTypes, n \in 0..MaxItems : create_task(ty, n)
    \/ \E id \in 1..MaxTasks, st \in Terminal \cup {QUEUED, RUNNING} :
          seed_status(id, st)
    \/ \E scope \in Scopes : clear_queued_tasks_scope(scope)
    \/ \E scope \in Scopes \cup {"invalid"}, debug \in BOOLEAN :
          api_clear_tasks(scope, debug)

SpecPurge == Init /\ [][NextPurge]_vars

\* GET /stream connections that come and go while tasks are created and
\* canceled and their updates are published
NextStream ==
    \/ \E ty \in TaskTypes, n \in 0..MaxItems :
          CreateCalls < MaxTasks /\ create_task_begin(ty, n)
    \/ \E c \in creating : create_task_commit(c)
    \/ \E c \in creating : create_task_abort(c)
    \/ \E c \in creating : published < MaxUpdates /\ create_task_publish(c)
    \/ \E id \in 1..MaxTasks : cancel_task(id)
    \/ \E id \in 1..MaxTasks : published < MaxUpdates /\ publish_task_update(id)
    \/ \E s \in Streams : api_queues_stream(s)
    \/ \E s \in Streams : event_generator_init(s)
    \/ \E s \in Streams : event_generator_loop(s)
    \/ \E s \in Streams : event_generator_msg(s)
    \/ \E s \in Streams : event_generator_ping(s)
    \/ \E s \in Streams : client_disconnect(s)

SpecStream == Init /\ [][NextStream]_vars

\* the producers of events, with publishes that fail, and streams that
\* subscribe
NextPublish ==
    \/ \E ty \in TaskTypes, n \in 0..MaxItems :
          CreateCalls < MaxTasks /\ create_task_begin(ty, n)
    \/ \E c \in creating : create_task_commit(c)
    \/ \E c \in creating, o \in PublishOutcomes : create_task_return(c, o)
    \/ \E id \in 1..MaxTasks : cancel_task(id)
    \/ \E id \in 1..MaxTasks, o \in PublishOutcomes :
          published < MaxUpdates /\ publish_task_update_logs(id, o)
    \/ \E s \in Streams : subscribe_events(s)
    \/ process_one_select
    \/ process_one_claim
    \/ process_one_claim_refresh
    \/ process_one_loop_refresh
    \/ process_one_item_start
    \/ \E o \in Outcomes : process_one_item_finish(o)
    \/ process_one_finalize
    \/ \E o \in PublishOutcomes : process_one_publish(o)
    \/ \E o \in PublishOutcomes : process_one_return(o)

SpecPublish == Init /\ [][NextPublish]_vars

\* cancel_task and clear_queued_tasks on a store of several tasks, some of
\* whose items the worker has completed or failed
NextFrame ==
    \/ \E ty \in TaskTypes, n \in 0..MaxItems :
          CreateCalls < MaxCreates /\ create_task_begin(ty, n)
    \/ \E c \in creating : create_task_commit(c)
    \/ \E c \in creating : create_task_return(c, "ok")
    \/ \E id \in 1..MaxCreates : cancel_task(id)
    \/ \E f \in BOOLEAN, s \in 0..MaxOlder : clear_queued_tasks_select(f, s)
    \/ clear_queued_tasks_commit
    \/ process_one_select
    \/ process_one_claim
    \/ process_one_claim_refresh
    \/ process_one_loop_refresh
    \/ process_one_item_start
    \/ \E o \in Outcomes : process_one_item_finish(o)
    \/ process_one_finalize
    \/ process_one_publish("ok")
    \/ process_one_return("ok")

SpecFrame == Init /\ [][NextFrame]_vars

\* the program is started again and again on a database file that earlier
\* versions wrote rows to
NextStartup ==
    \/ \E table \in {"queue_tasks", "queue_items"}, st \in RawStatuses :
          legacy_insert(table, st)
    \/ init_db_migrate
    \/ init_db_normalize
    \/ process_exit

SpecStartup == Init /\ [][NextStartup]_vars

\* the background loop and a run-once request, on a store that create_task
\* calls fill concurrently
NextClaim ==
    \/ \E ty \in TaskTypes, n \in 0..MaxItems :
          CreateCalls < MaxCreates /\ create_task_begin(ty, n)
    \/ \E c \in creating : create_task_commit(c)
    \/ \E c \in creating : create_task_abort(c)
    \/ \E c \in creating : create_task_publish(c)
    \/ process_one_select
    \/ process_one_claim
    \/ process_one_claim_refresh
    \/ process_one_loop_refresh
    \/ process_one_item_start
    \/ \E o \in Outcomes : process_one_item_finish(o)
    \/ process_one_finalize
    \/ process_one_publish("ok")
    \/ process_one_return("ok")
    \/ run_once_select
    \/ run_once_claim
    \/ run_once_claim_refresh
    \/ run_once_loop_refresh
    \/ run_once_item_start
    \/ \E o \in Outcomes : run_once_item_finish(o)
    \/ run_once_finalize
    \/ run_once_publish("ok")
    \/ run_once_return("ok")

SpecClaim == Init /\ [][NextClaim]_vars

\* refresh_metadata tasks, enqueued with or without a forced provider, and the
\* worker that processes them
NextRefresh ==
    \/ \E t, o \in BOOLEAN :
          configure([media.config EXCEPT !.tmdb_key = t, !.omdb_key = o])
    \/ \E ps \in PayloadLists(RefreshPayloads), provider \in Providers :
          enqueue("refresh_metadata", ps, provider)
    \/ process_one_select
    \/ process_one_claim
    \/ process_one_claim_refresh
    \/ process_one_loop_refresh
    \/ process_one_item_start
    \/ \E a \in RefreshAnswers : process_one_item_handle(a)
    \/ process_one_finalize
    \/ process_one_publish("ok")
    \/ process_one_return("ok")

SpecRefresh == Init /\ [][NextRefresh]_vars

\* sync_watch_history tasks and the worker that processes them
NextSync ==
    \/ \E t, x \in BOOLEAN :
          configure([media.config EXCEPT !.tautulli = t, !.plex = x])
    \/ \E ps \in PayloadLists(SyncPayloads) : enqueue("sync_watch_history", ps, "none")
    \/ process_one_select
    \/ process_one_claim
    \/ process_one_claim_refresh
    \/ process_one_loop_refresh
    \/ process_one_item_start
    \/ \E a \in SyncAnswers : process_one_item_handle(a)
    \/ process_one_finalize
    \/ process_one_publish("ok")
    \/ process_one_return("ok")

SpecSync == Init /\ [][NextSync]_vars

\* the worker's loops, started and stopped by the application and by the
\* worker endpoints, on a store that create_task fills
LoopSteps ==
    \/ run_calls_process_one(1) /\ process_one_select
    \/ process_one_claim
    \/ process_one_claim_refresh
    \/ process_one_loop_refresh
    \/ process_one_item_start
    \/ \E o \in Outcomes : process_one_item_finish(o)
    \/ process_one_finalize
    \/ process_one_publish("ok")
    \/ process_one_return("ok")
    \/ run_exit(1)
    \/ run_sleep(1)
    \/ run_wake(1)

\* the loop of a second task that start() created
SecondLoopSteps ==
    \/ run_calls_process_one(2) /\ run_once_select
    \/ run_once_claim
    \/ run_once_claim_refresh
    \/ run_once_loop_refresh
    \/ run_once_item_start
    \/ \E o \in Outcomes : run_once_item_finish(o)
    \/ run_once_finalize
    \/ run_once_publish("ok")
    \/ run_once_return("ok")
    \/ run_exit(2)
    \/ run_sleep(2)
    \/ run_wake(2)

StopReturns == \E l \in Loops : stop_return(l)

NextRunner ==
    \/ \E ty \in TaskTypes, n \in 0..MaxItems : create_task(ty, n)
    \/ lifespan_startup
    \/ lifespan_shutdown
    \/ \E debug \in BOOLEAN : api_worker_start(debug)
    \/ \E debug \in BOOLEAN : api_worker_stop(debug)
    \/ LoopSteps
    \/ SecondLoopSteps
    \/ StopReturns

SpecRunner == Init /\ [][NextRunner]_vars

\* the worker on a store that raises now and then, in a process that can be
\* restarted
NextFaulty ==
    \/ Next
    \/ process_one_raise
    \/ worker_restart

SpecFaulty == Init /\ [][NextFaulty]_vars

\* the worker's loops on a store that raises now and then
NextRunnerFaulty ==
    \/ NextRunner
    \/ \E l \in Loops : run_catches(l)

SpecRunnerFaulty == Init /\ [][NextRunnerFaulty]_vars

\* the event loop runs every task that can take a step
SpecRunnerFair ==
    /\ SpecRunner
    /\ WF_vars(LoopSteps)
    /\ WF_vars(SecondLoopSteps)
    /\ WF_vars(StopReturns)

ItemRows(t) == 1..Len(items[t])

\* ---- claims ---------------------------------------------------------------

\* C1: once cancel_task(id) has committed (canceled_at is set), no item of the
\* task goes from another status to running, and an item the cancel left
\* canceled keeps that status.
C1_NoRunningAfterCancel ==
    [][\A t \in TaskIds :
          tasks[t].canceled_at # NoTime =>
             \A k \in ItemRows(t) :
                /\ items[t][k].status # RUNNING => items'[t][k].status # RUNNING
                /\ items[t][k].status = CANCELED => items'[t][k].status = CANCELED]_vars

\* C2: a task whose committed status is canceled or deleted is never set to
\* completed or failed afterwards.
C2_FinalizeLeavesCanceled ==
    [][\A t \in TaskIds :
          tasks[t].status \in {CANCELED, DELETED} =>
             tasks'[t].status \notin {COMPLETED, FAILED}]_vars

\* cancel_task committed after the first item of t was marked running and before
\* that item's outcome was committed
CanceledDuringFirstItem(t) ==
    /\ Len(items[t]) = 2
    /\ items[t][1].started_at # NoTime
    /\ items[t][1].finished_at # NoTime
    /\ items[t][1].started_at < tasks[t].canceled_at
    /\ tasks[t].canceled_at < items[t][1].finished_at

\* C3: a two-item task canceled while its first item is running: once
\* process_one has returned, get_task reports the task and its second item as
\* canceled.
C3_CancelMidRunReportsCanceled ==
    \A t \in TaskIds :
        (pc = "idle" /\ CanceledDuringFirstItem(t)) =>
            /\ get_task(t).status = CANCELED
            /\ get_task(t).items[2] = CANCELED

\* C4: a task in status completed, failed, canceled or deleted never changes
\* status again.
C4_TerminalTaskStatus ==
    [][\A t \in TaskIds :
          tasks[t].status \in Terminal => tasks'[t].status = tasks[t].status]_vars

\* C5: an item that cancel_task set to canceled while its handler was running
\* keeps status and result, and the handler's outcome does not increment
\* completed_items.
C5_CanceledItemStaysCanceled ==
    [][\A t \in TaskIds : \A k \in ItemRows(t) :
          (/\ pc = "handler" /\ w_id = t /\ order[pos] = k
           /\ tasks[t].canceled_at # NoTime
           /\ items[t][k].status = CANCELED) =>
             /\ items'[t][k].status = CANCELED
             /\ items'[t][k].result = items[t][k].result
             /\ tasks'[t].completed_items = tasks[t].completed_items]_vars

\* the number of item rows of task t whose status is st
CountStatus(t, st) == Cardinality({k \in ItemRows(t) : items[t][k].status = st})

\* C6: in every committed state completed_items of every task equals the number
\* of its items in status completed, and is at most total_items.
C6_CompletedItemsCount ==
    \A t \in TaskIds :
        /\ tasks[t].completed_items = CountStatus(t, COMPLETED)
        /\ tasks[t].completed_items <= tasks[t].total_items

\* a task with a completed item next to a failed or canceled one
C6_Witness ==
    \E t \in TaskIds :
        /\ tasks[t].completed_items >= 1
        /\ CountStatus(t, FAILED) + CountStatus(t, CANCELED) >= 1

\* C7: a task in status completed has no item in status failed.
C7_CompletedHasNoFailedItem ==
    \A t \in TaskIds :
        tasks[t].status = COMPLETED => CountStatus(t, FAILED) = 0

\* the worker finalized a two-item task as completed
C7_Witness ==
    \E t \in TaskIds :
        /\ tasks[t].status = COMPLETED
        /\ tasks[t].finished_at # NoTime
        /\ CountStatus(t, COMPLETED) = 2

C9_TotalItemsIsRowCount ==
    /\ [](\A t \in TaskIds : tasks[t].total_items = Len(items[t]))
    /\ [][\A t \in TaskIds :
             /\ Len(items'[t]) = Len(items[t])
             /\ tasks'[t].total_items = tasks[t].total_items
             /\ \A k \in ItemRows(t) : items'[t][k].index = items[t][k].index]_vars

\* a two-item task that was processed in part, then canceled or cleared
C9_Witness ==
    \E t \in TaskIds :
        /\ tasks[t].total_items = 2
        /\ tasks[t].status = DELETED
        /\ CountStatus(t, CANCELED) >= 1
        /\ CountStatus(t, COMPLETED) + CountStatus(t, FAILED) >= 1

ClaimsInStep(t) ==
    \/ pc = "claim" /\ pc' = "claim_refresh" /\ w_id = t
    \/ once.pc = "claim" /\ once'.pc = "claim_refresh" /\ once.id = t

\* C11: every time the worker claims a task, the claimed task has the smallest
\* created_at among all the tasks whose status is queued at that moment.
C11_ClaimsSmallestCreatedAt ==
    [][\A t \in TaskIds :
          ClaimsInStep(t) =>
             \A j \in QueuedIds : tasks[t].created_at <= tasks[j].created_at]_vars

\* C12: two concurrent invocations of process_one never claim the same task: a
\* task that an invocation marks running is queued, not already claimed by
\* the other invocation, when it does so.
C12_ClaimsAreDisjoint ==
    [][\A t \in TaskIds : ClaimsInStep(t) => tasks[t].status = QUEUED]_vars

\* C13: the buffer of a subscriber never holds more than 10 messages and always
\* holds the most recently published ones, in publish order; a publish that
\* finds the buffer full drops exactly its oldest message and appends the new
\* one (so a subscriber that never reads holds the 10 most recent messages).
C13_BufferKeepsMostRecent ==
    /\ [](\A s \in subscribers :
             /\ Len(buffers[s]) <= SUBSCRIBER_QUEUE_MAXSIZE
             /\ \A k \in 1..Len(buffers[s]) :
                   buffers[s][k].n = published - Len(buffers[s]) + k)
    /\ [][\A s \in subscribers :
             (published' = published + 1 /\ QueueFull(buffers[s])) =>
                /\ s \in subscribers'
                /\ Len(buffers'[s]) = SUBSCRIBER_QUEUE_MAXSIZE
                /\ SubSeq(buffers'[s], 1, Len(buffers[s]) - 1) = Tail(buffers[s])
                /\ buffers'[s][Len(buffers'[s])].n = published']_vars

\* a subscriber that never read, after more than 10 publishes: it holds 10
\* messages, the oldest of which is not the first that was published to it
C13_Witness ==
    \E s \in subscribers :
        /\ last_read[s] = 0
        /\ published > SUBSCRIBER_QUEUE_MAXSIZE
        /\ Len(buffers[s]) = SUBSCRIBER_QUEUE_MAXSIZE
        /\ Head(buffers[s]).n = published - SUBSCRIBER_QUEUE_MAXSIZE + 1

\* C14: every message a stream reads was published after the message it read
\* before (the messages read are a subsequence of the publish sequence: none
\* twice, none out of order).
C14_ReadsInPublishOrder ==
    [][\A s \in Streams :
          (s \in subscribers /\ last_read'[s] # last_read[s]) =>
             /\ last_read'[s] > last_read[s]
             /\ last_read'[s] <= published
             /\ last_read'[s] = Head(buffers[s]).n]_vars

\* a stream that read a message and whose next message is not the one published
\* right after it: messages in between were dropped
C14_Witness ==
    \E s \in subscribers :
        /\ last_read[s] >= 1
        /\ buffers[s] # <<>>
        /\ Head(buffers[s]).n > last_read[s] + 1

\* the task_update message number n that carries the stored state of task id
TaskUpdate(n, id) ==
    [n |-> n, event |-> "task_update",
     data |-> [id |-> id,
               status |-> tasks[id].status,
               total_items |-> tasks[id].total_items,
               completed_items |-> tasks[id].completed_items,
               items |-> [k \in ItemRows(id) |-> items[id][k].status]]]

\* C15: every publish of a task update appends exactly one task_update message,
\* carrying the id and the stored state of one existing task, to the buffer of
\* every subscribed stream and to no other buffer; and when create_task returns
\* after its commit, this publish was made for the task it created.
C15_PublishTaskUpdate ==
    [][/\ published' # published =>
             \E id \in TaskIds :
                /\ published' = published + 1
                /\ subscribers' = subscribers
                /\ \A s \in Streams :
                      buffers'[s] = IF s \in subscribers
                                    THEN Append(buffers[s], TaskUpdate(published + 1, id))
                                    ELSE buffers[s]
       /\ \A c \in creating :
             (c.id > 0 /\ c \notin creating') =>
                /\ published' = published + 1
                /\ \A s \in subscribers :
                      buffers'[s] = Append(buffers[s], TaskUpdate(published + 1, c.id))]_vars

\* both streams hold the same update of a task that was canceled after it was
\* created
C15_Witness ==
    /\ subscribers = Streams
    /\ \E id \in TaskIds :
          /\ tasks[id].status = DELETED
          /\ \A s \in Streams :
                /\ buffers[s] # <<>>
                /\ buffers[s][Len(buffers[s])] = TaskUpdate(published, id)

\* C16: the rows of a task and of its items appear in one step: a task in
\* status queued with completed_items 0 and total_items the number of payloads
\* of the call, with one queued item per payload, numbered from 0 in the order
\* given; a call that raises leaves the store as it was; so every stored task
\* has its total_items item rows in every state.
C16_CreateTaskAtomic ==
    /\ [](/\ Len(items) = Len(tasks)
          /\ \A t \in TaskIds : Len(items[t]) = tasks[t].total_items)
    /\ [][/\ Len(tasks') > Len(tasks) =>
                \E c \in creating :
                   LET t == Len(tasks) + 1
                   IN  /\ c.id = 0
                       /\ Len(tasks') = t
                       /\ SubSeq(tasks', 1, Len(tasks)) = tasks
                       /\ SubSeq(items', 1, Len(items)) = items
                       /\ tasks'[t].type = c.task.type
                       /\ tasks'[t].status = QUEUED
                       /\ tasks'[t].completed_items = 0
                       /\ tasks'[t].total_items = c.n
                       /\ Len(items'[t]) = c.n
                       /\ \A k \in 1..c.n :
                             /\ items'[t][k].index = k - 1
                             /\ items'[t][k].status = QUEUED
          /\ \A c \in creating :
                (c.id = 0 /\ [c EXCEPT !.id = -1] \in creating') =>
                   (tasks' = tasks /\ items' = items)]_vars

\* a call with two payloads has committed: the task and its two items are stored
C16_Witness ==
    \E c \in creating :
        /\ c.id \in TaskIds
        /\ c.n = 2
        /\ tasks[c.id].status = QUEUED
        /\ Len(items[c.id]) = 2
        /\ items[c.id][2].index = 1

C19_ClearCurrentOnly ==
    [][(clear_pc = "selected" /\ clear_pc' = "idle") =>
          \A t \in TaskIds :
             /\ (t \in clear_ids /\ tasks[t].status \in {QUEUED, RUNNING}) =>
                   /\ tasks'[t].status = DELETED
                   /\ items'[t] = CancelItems(items[t])
             /\ tasks[t].status \in Terminal =>
                   /\ tasks'[t] = tasks[t]
                   /\ items'[t] = items[t]]_vars

\* the task's started_at when it has been started, else its created_at, is
\* older than the cutoff
OlderThan(t, cutoff) ==
    IF t.started_at # NoTime THEN t.started_at < cutoff ELSE t.created_at < cutoff

\* C20: a clear_queued_tasks given older_than_seconds selects a task only if the
\* task's started_at, when it has been started, or else its created_at, is
\* older than the cutoff.
C20_ClearOlderThan ==
    [][\A s \in 0..MaxOlder :
          (clear_queued_tasks_select(TRUE, s) /\ clear_pc' = "selected") =>
             \A t \in clear_ids' :
                /\ tasks[t].status \in {QUEUED, RUNNING}
                /\ OlderThan(tasks[t], now - s)]_vars

\* C18: a purge with scope all leaves the task table and the item table empty,
\* whatever the statuses of the tasks were, and returns a tasks_cleared count
\* of at least the number of tasks that were stored.
C18_PurgeAllEmptiesStore ==
    [][(response' # response /\ response'.scope = "all") =>
          /\ tasks' = <<>>
          /\ items' = <<>>
          /\ response'.tasks_cleared >= Len(tasks)]_vars

\* C21: a purge request whose scope is not one of current, history, all is
\* answered with HTTP 400 (where purging is enabled at all) and changes no task
\* and no item.
C21_InvalidScopeIs400 ==
    [][(/\ response' # response
        /\ response'.scope \notin Scopes
        /\ response'.http \notin {0, 403}) =>
          /\ response'.http = 400
          /\ tasks' = tasks
          /\ items' = items]_vars

\* C22: an exception raised by a handler does not leave process_one: the item
\* is stored as failed with the error text as its result, last_error is set to
\* that text, and the worker goes on to the next item of the task, or to the
\* finalization after the last one.
C22_HandlerExceptionIsCaptured ==
    [][(/\ pc = "handler"
        /\ pc' # "handler"
        /\ items'[w_id][order[pos]].result = "exception") =>
          /\ items'[w_id][order[pos]].status = FAILED
          /\ last_error' = "exception"
          /\ w_id' = w_id
          /\ pos' = pos + 1
          /\ pc' = "publish"]_vars

\* a task that went on after the exception of its first item: the second item
\* completed and the task was finalized as failed
C22_Witness ==
    /\ pc = "idle"
    /\ last_error = "exception"
    /\ \E t \in TaskIds :
          /\ Len(items[t]) = 2
          /\ items[t][1].status = FAILED
          /\ items[t][1].result = "exception"
          /\ items[t][2].status = COMPLETED
          /\ tasks[t].status = FAILED

\* C23: a task whose type has no handler, once the worker has processed it, is
\* finalized as failed, with every item failed with the result "unknown task
\* type" and completed_items still 0 (stated for the tasks that have an item).
C23_UnknownTypeFails ==
    [][\A t \in TaskIds :
          (/\ pc = "finalize"
           /\ w_id = t
           /\ tasks[t].type \notin HandledTypes
           /\ Len(items[t]) >= 1
           /\ tasks'[t].status # tasks[t].status) =>
             /\ tasks'[t].status = FAILED
             /\ tasks'[t].completed_items = 0
             /\ \A k \in ItemRows(t) :
                   /\ items'[t][k].status = FAILED
                   /\ items'[t][k].result = "unknown task type"]_vars

\* the worker handles the item at `pos` of its task in this step
HandlesItem == pc = "handler" /\ pc' # "handler"

\* the handler of this step asked at least one provider, none returned a
\* result and none raised
NoProviderResult ==
    /\ media'.last.calls # {}
    /\ \A c \in media'.last.calls : ~c.hit
    /\ items'[w_id][order[pos]].result # "exception"

\* the item of this step ends completed with a note as its result, is counted
\* in completed_items, and an INFO entry of QueueWorker naming the title and
\* the queries tried is among the log entries the step persists
CompletedAsNoOp ==
    /\ items'[w_id][order[pos]].status = COMPLETED
    /\ items'[w_id][order[pos]].result \in {NoMetadataNote, "note: no provider available"}
    /\ tasks'[w_id].completed_items = tasks[w_id].completed_items + 1
    /\ \E n \in (Len(media.logs) + 1)..Len(media'.logs) :
          media'.logs[n] = LogEntry("INFO", "tmdb_tried")

C25_OmdbNeverConsultsTmdb ==
    [][(/\ HandlesItem
        /\ orm_task.type = "refresh_metadata"
        /\ media.meta[w_id] = "omdb"
        /\ media.config.omdb_key) =>
          \A c \in media'.last.calls : c.fn # "tmdb"]_vars

\* the movie that the payload of the item of this step names, 0 if none
MovieOfItem ==
    IF media.payload[w_id][order[pos]].key = "movie_id"
    THEN media.payload[w_id][order[pos]].id ELSE 0

\* C26: when a sync_watch_history item resolves a rating_key for a movie that
\* had none, the rating_key is stored on that movie (and on no other); an item
\* for a movie that has a stored rating_key asks Tautulli for the history of
\* that key and makes no Plex lookup and no Tautulli search.
C26_RatingKeyPersistedAndReused ==
    [][(/\ HandlesItem
        /\ orm_task.type = "sync_watch_history"
        /\ MovieOfItem \in Movies) =>
          /\ (/\ media.rating_key[MovieOfItem] = 0
              /\ \E c \in media'.last.calls :
                    c.fn \in {"plex", "tautulli.search_movie_history"} /\ c.hit) =>
                media'.rating_key[MovieOfItem] \in RatingKeys
          /\ (media.rating_key[MovieOfItem] # 0 /\ media'.last.calls # {}) =>
                /\ \A c \in media'.last.calls :
                      /\ c.fn = "tautulli.get_history"
                      /\ c.arg = media.rating_key[MovieOfItem]
                /\ media'.rating_key[MovieOfItem] = media.rating_key[MovieOfItem]
          /\ \A m \in Movies \ {MovieOfItem} :
                media'.rating_key[m] = media.rating_key[m]]_vars

\* two items for the same movie were handled: the first resolved the rating
\* key through Plex, the second asked Tautulli for its history only
C26_Witness ==
    /\ media.config.plex
    /\ \E t \in TaskIds :
          /\ tasks[t].type = "sync_watch_history"
          /\ Len(items[t]) = 2
          /\ media.payload[t] = <<Payload("movie_id", 2, FALSE), Payload("movie_id", 2, FALSE)>>
          /\ items[t][1].status = COMPLETED
          /\ items[t][2].status = COMPLETED
          /\ items[t][1].finished_at < items[t][2].finished_at
          /\ media.rating_key[2] \in RatingKeys
          /\ media.rating_key[1] = 0
          /\ media.last.item = 2
          /\ \E h \in BOOLEAN :
                media.last.calls = {Call("tautulli.get_history", media.rating_key[2], h)}

C28_StopEventuallyReturns ==
    (runner.waiting # {} /\ now <= MaxClock) ~> (runner.waiting = {} \/ now > MaxClock)

\* C29: on a stream connection the first message is an init event that carries
\* the current task list, every message after it is a task_update (or a ping),
\* and when the client disconnects the connection's queue is no longer among
\* the subscribers, so that later publishes do not enqueue to it.
C29_StreamProtocol ==
    [][\A s \in Streams :
          /\ (conn[s].first = NoMessage /\ conn'[s].first # NoMessage)
                => conn'[s].first = [event |-> "init", data |-> list_tasks]
          /\ conn'[s].later \subseteq {"task_update", "ping"}
          /\ (conn[s].at # "closed" /\ conn'[s].at = "closed")
                => s \notin subscribers']_vars

\* every status text of the column is lowercase
AllLower(column) == \A k \in 1..Len(column) : column[k] = Lower(column[k])

\* C30: after the startup pass every status value of queue_tasks and of
\* queue_items is lowercase, and a second pass on the database the first one
\* left changes no status value, executes no migration file and leaves the
\* migrations table as it was.
C30_StartupPassIsIdempotent ==
    [][/\ db'.at = "up" => AllLower(db'.queue_tasks) /\ AllLower(db'.queue_items)
       /\ (db.fresh /\ db.at \in {"down", "migrated"} /\ db'.at \in {"migrated", "up"})
             => /\ db'.queue_tasks = db.queue_tasks
                /\ db'.queue_items = db.queue_items
                /\ db'.ledger = db.ledger
                /\ db'.executed = db.executed]_vars

\* the task is over as the worker leaves it: completed or failed, and none of
\* its items queued or running
Drained(t) ==
    /\ tasks[t].status \in {COMPLETED, FAILED}
    /\ \A k \in ItemRows(t) : items[t][k].status \notin {QUEUED, RUNNING}

\* the worker was started and no Stop() was requested since
LoopRunning == runner.task # 0 /\ ~runner.stopped

C32_OneTaskAtATime ==
    /\ ~(pc # "idle" /\ once.pc # "idle")
    /\ ~(pc = "handler" /\ once.pc = "handler")

\* loop l leaves run() in this step
LoopExits(l) == runner.at[l] # "done" /\ runner'.at[l] = "done"

ClaimCommits == pc = "claim" /\ pc' = "claim_refresh"

\* task t is running and the worker's invocation of process_one does not hold it
LeftRunning(t) == tasks[t].status = RUNNING /\ w_id # t

\* C34: the worker claims only tasks whose status is queued; a task that was
\* left in status running (by a store error or by the end of the process) is
\* not claimed by a later iteration or after a restart and stays running until
\* it is canceled or purged.
C34_ClaimsOnlyQueued ==
    [][/\ ClaimCommits => tasks[w_id].status = QUEUED
       /\ \A t \in TaskIds :
             LeftRunning(t) =>
                \/ LeftRunning(t)'
                \/ tasks'[t].status = DELETED]_vars

\* an exception leaves the process_one call of loop l in this step
RaisesInLoop(l) ==
    IF l = 1 THEN pc \in StoreAwaits /\ pc' = "idle" /\ runner'.at[1] # runner.at[1]
             ELSE once.pc \in StoreAwaits /\ once'.pc = "idle"
                  /\ runner'.at[2] # runner.at[2]

\* C35: an exception of the store during an iteration does not end the loop:
\* the loop sleeps one poll interval, from which it goes back to its while
\* test, and it exits only when stop has been signaled.
C35_StoreErrorDoesNotEndLoop ==
    [][\A l \in Loops :
          /\ RaisesInLoop(l) => runner'.at[l] = "sleep"
          /\ (runner.at[l] = "sleep" /\ runner'.at[l] # "sleep")
                => runner'.at[l] = "check"
          /\ LoopExits(l) => runner.stop]_vars

\* the loop went on after a store error: the task it had claimed is left
\* running, no invocation holds it, and the loop is asleep or back at its
\* while test with no Stop() requested
C35_Witness ==
    /\ runner.at[1] \in {"check", "sleep"}
    /\ ~runner.stopped
    /\ pc = "idle"
    /\ \E t \in TaskIds : tasks[t].status = RUNNING /\ w_id # t /\ once.id # t

WorkerCommits ==
    \/ ClaimCommits
    \/ pc = "item_start" /\ pc' = "handler"
    \/ pc = "handler" /\ pc' # "handler"
    \/ pc = "finalize" /\ pc' # "finalize" /\ tasks' # tasks

\* C37: after each status transition the worker commits (task claimed, item
\* running, item completed or failed, task finalized) its next step is the
\* publish of a task_update, before it commits anything else.
C37_PublishAfterEachTransition ==
    [][WorkerCommits => pc' \in {"publish", "publish_final"}]_vars

\* task t was canceled or purged before any claim of it was committed
DeletedWhileQueued(t) == tasks[t].status = DELETED /\ tasks[t].started_at = NoTime

\* C38: a task that was canceled or purged while it was still queued is never
\* claimed: it does not enter running, no handler is invoked for an item of
\* it, and its completed_items stays 0.
C38_CanceledQueuedIsNeverClaimed ==
    [][\A t \in TaskIds :
          DeletedWhileQueued(t) =>
             /\ tasks'[t].status # RUNNING
             /\ tasks'[t].started_at = NoTime
             /\ tasks'[t].completed_items = 0
             /\ ~(w_id = t /\ pc' = "handler")]_vars

\* what an operation on the tasks `selected` leaves alone in this step: the
\* rows that exist, every item that is completed or failed, the counters of
\* every task, and the tasks that were not selected with their items
FrameOf(selected) ==
    /\ Len(tasks') = Len(tasks)
    /\ \A t \in TaskIds :
          /\ Len(items'[t]) = Len(items[t])
          /\ \A k \in ItemRows(t) :
                items[t][k].status \in {COMPLETED, FAILED} => items'[t][k] = items[t][k]
          /\ tasks'[t].total_items = tasks[t].total_items
          /\ tasks'[t].completed_items = tasks[t].completed_items
          /\ t \notin selected => (tasks'[t] = tasks[t] /\ items'[t] = items[t])

SnapshotRead(c) == c.at \in {"yield_init", "loop"}

\* C40: the queue of a stream connection is subscribed before the generator
\* reads the init snapshot, so an update published after the snapshot was read
\* is put at the end of that connection's buffer (the oldest message giving way
\* when the buffer is full), and the message delivered next is the oldest one
\* of the buffer: no update is lost between the snapshot and the first
\* task_update the client receives.
C40_NoUpdateLostAfterSnapshot ==
    [][\A s \in Streams :
          /\ (conn[s].at = "list_tasks" /\ SnapshotRead(conn'[s]))
                => s \in subscribers
          /\ (SnapshotRead(conn[s]) /\ SnapshotRead(conn'[s]) /\ published' = published + 1)
                => /\ s \in subscribers'
                   /\ buffers'[s] # <<>>
                   /\ buffers'[s][Len(buffers'[s])].n = published'
                   /\ buffers'[s][Len(buffers'[s])].event = "task_update"
                   /\ ~QueueFull(buffers[s])
                         => SubSeq(buffers'[s], 1, Len(buffers'[s]) - 1) = buffers[s]
          /\ (SnapshotRead(conn[s]) /\ last_read'[s] # last_read[s])
                => /\ buffers[s] # <<>>
                   /\ last_read'[s] = Head(buffers[s]).n
                   /\ buffers'[s] = Tail(buffers[s])]_vars

\* a client whose snapshot is older than the store (a task changed after it was
\* read) and that has been delivered every update published since
C40_Witness ==
    \E s \in Streams :
       /\ conn[s].at = "loop"
       /\ conn[s].first.event = "init"
       /\ conn[s].first.data # list_tasks
       /\ "task_update" \in conn[s].later
       /\ s \in subscribers
       /\ buffers[s] = <<>>
       /\ published >= 1
       /\ last_read[s] = published

====
